---- MODULE Spec2Model ----
(***************************************************************************)
(* Judgement Insights (src/app.py): a Streamlit script.  Every user event  *)
(* reruns the whole script top to bottom against st.session_state.  The    *)
(* model follows one rerun through its blocks: key selection, Gemini       *)
(* configuration, upload handling, the Generate Summary button handler.    *)
(***************************************************************************)
EXTENDS Integers, Sequences, FiniteSets, TLC

\* ---------------------------------------------------------------- bounds
\* Number of distinct uploads (file identity tokens) in one session.
MaxUploads == 2

\* The count of extractions of one upload is kept up to this value.
MaxCount == 2

\* Number of distinct calendar dates a date input can deliver.
MaxDate == 2

\* Number of hearings stored in one session.
MaxHearings == 2

\* Characters by which an extracted text exceeds the prompt limit at most.
MaxExtra == 2

\* ---------------------------------------------------------------- values
\* Python None for the string-valued fields.
None == "None"

\* uploaded_file_id None (lines 175, 299); real identity tokens are 1, 2, ...
NoFileId == 0

\* API keys a user or the secret store can hold.
Keys == {"k1", "k2"}

\* What st.secrets.get("GEMINI_API_KEY") can yield: absent, empty, or a key.
SecretValues == {None, ""} \cup Keys

\* What the sidebar text input can yield: empty or a key.
UserKeyValues == {""} \cup Keys

\* Contents an uploaded PDF can have: unparsable, no text layer, or a text.
Docs == {"corrupt", "blank", "A", "B"}

\* uploaded_file is None: no file in the uploader.
NoFile == [file_id |-> NoFileId, doc |-> None]

Files == [file_id : 1..MaxUploads, doc : Docs]

\* The model handle returned by genai.GenerativeModel(...).
Model == "gemini-1.5-flash-latest"

\* The sentinel summarize_with_gemini returns when not configured.
NotConfiguredMsg == "Gemini API not configured or model unavailable."

\* Python truthiness of an optional string.
Truthy(x) == x # None /\ x # ""

\* response.text of a successful generation for a prompt built from `text`.
ResponseText(text) == "summary of " \o text

\* Outcomes of model.generate_content: parts present, blocked, or raising.
GenerateOutcomes == {"ok", "blocked", "api_error"}

\* Outcomes of genai.configure / genai.GenerativeModel: returns or raises.
ConfigureOutcomes == {"ok", "raise"}

VARIABLES
    \* st.session_state
    pdf_text, summary, uploaded_file_id,
    gemini_configured, gemini_error, user_gemini_key,
    \* environment: secret store, uploader widget, genai library, page
    secrets_key, uploaded_file, next_file_id, genai_api_key, button_shown,
    \* script locals of the running rerun
    pc, api_key_to_use, gemini_model, clicked,
    \* observation of the running rerun
    pre, configure_calls, extract_calls, generate_calls, summary_outcome,
    summary_result, extractions_of_upload, sent_text, summary_file_id,
    \* st.session_state, manual entry
    case_details, timeline, hearings,
    \* manual entry: the page, the Add Hearing click, script locals
    add_shown, add_clicked, new_hearing_date, new_hearing_summary,
    decision_date_val, sorted_hearings

session == <<pdf_text, summary, uploaded_file_id,
             gemini_configured, gemini_error, user_gemini_key>>
environment == <<secrets_key, uploaded_file, next_file_id, genai_api_key,
                 button_shown>>
locals == <<pc, api_key_to_use, gemini_model, clicked>>
observed == <<pre, configure_calls, extract_calls, generate_calls,
              summary_outcome, summary_result, extractions_of_upload,
              sent_text>>
manual == <<case_details, timeline, hearings, add_shown, add_clicked,
            new_hearing_date, new_hearing_summary, decision_date_val,
            sorted_hearings>>
vars == <<session, environment, locals, observed, summary_file_id, manual>>

\* ------------------------------------------------------- pure helpers
\* str(e) stored by the except branch of the configuration block (line 95).
ConfigError == "configure failed"

\* text_to_summarize[:30000] (line 144).
PromptLimit == 30000

Min(a, b) == IF a <= b THEN a ELSE b

\* Variant of PromptText: the slice is one character too long.
PromptText_one_more(text) == SubSeq(text, 1, Min(Len(text), PromptLimit + 1))

PromptText(text) == SubSeq(text, 1, Min(Len(text), PromptLimit))

\* Variant of api_key_selection: the user-entered key is preferred.
api_key_selection_user_first(secret, user) ==
    IF Truthy(user) THEN user
    ELSE IF Truthy(secret) THEN secret
    ELSE None

\* Lines 57-70: the effective key of the rerun.
api_key_selection(secret, user) ==
    IF Truthy(secret) THEN secret
    ELSE IF Truthy(user) THEN user
    ELSE None

\* Variant of should_configure: the "not already configured" test is lost.
should_configure_again(key, configured, error) ==
    Truthy(key) /\ error = None

\* Variant of should_configure: the "no recorded error" test is lost.
should_configure_after_error(key, configured, error) ==
    Truthy(key) /\ ~configured

\* Line 74: the guard of the configuration block.
should_configure(key, configured, error) ==
    Truthy(key) /\ ~configured /\ error = None

\* Variant of needs_extraction: "not pdf_text" in place of "is None".
needs_extraction_falsy(text, file_id, recorded_id) ==
    ~Truthy(text) \/ file_id # recorded_id

\* Line 175: the guard of text extraction.
needs_extraction(text, file_id, recorded_id) ==
    text = None \/ file_id # recorded_id

\* Lines 115-128: the page texts concatenated, "" for a PDF without a text
\* layer, None when fitz raises.
extract_text_from_pdf(file) ==
    CASE file.doc = "corrupt" -> None
      [] file.doc = "blank"   -> ""
      [] OTHER                -> "text " \o file.doc

\* Variant of button_enabled: the configuration flag is not tested.
button_enabled_text_only(configured, text) == Truthy(text)

\* Line 198: the Generate Summary button is rendered.
button_enabled(configured, text) == configured /\ Truthy(text)

\* Variant of summarize_with_gemini: a failed call is tried once more.
summarize_with_gemini_retry(text, model, configured, go) ==
    IF ~configured \/ model = None
    THEN [result |-> NotConfiguredMsg, calls |-> 0,
          outcome |-> "not_configured", sent |-> None]
    ELSE [result |-> IF go = "ok" THEN ResponseText(PromptText(text)) ELSE None,
          calls |-> IF go = "ok" THEN 1 ELSE 2,
          outcome |-> go, sent |-> PromptText(text)]

\* Variant of summarize_with_gemini: the guard tests the model only.
summarize_with_gemini_model_only(text, model, configured, go) ==
    IF model = None
    THEN [result |-> NotConfiguredMsg, calls |-> 0,
          outcome |-> "not_configured", sent |-> None]
    ELSE [result |-> IF go = "ok" THEN ResponseText(PromptText(text)) ELSE None,
          calls |-> 1, outcome |-> go, sent |-> PromptText(text)]

\* Lines 130-166: result is the returned value, calls the number of
\* model.generate_content calls made, outcome what happened, sent the
\* part of the text placed in the prompt of the call (None without a call).
summarize_with_gemini(text, model, configured, go) ==
    IF ~configured \/ model = None
    THEN [result |-> NotConfiguredMsg, calls |-> 0,
          outcome |-> "not_configured", sent |-> None]
    ELSE [result |-> IF go = "ok" THEN ResponseText(PromptText(text)) ELSE None,
          calls |-> 1, outcome |-> go, sent |-> PromptText(text)]

\* Variant of stored_summary: the result is stored without the test.
stored_summary_unchecked(result, old) == result

\* Lines 212-213: the summary kept in the session after summarize returned.
stored_summary(result, old) == IF Truthy(result) THEN result ELSE old

\* The session fields as they stand when a rerun starts.
Snapshot ==
    [pdf_text |-> pdf_text, summary |-> summary,
     uploaded_file_id |-> uploaded_file_id,
     gemini_configured |-> gemini_configured, gemini_error |-> gemini_error,
     api_key_to_use |-> api_key_to_use, genai_api_key |-> genai_api_key]

\* ------------------------------------------------------ manual entry
\* Python None for a date; real dates are 1..MaxDate, ordered as dates are.
NoDate == 0

Dates == 1..MaxDate

\* What the Hearing Summary text area can yield: empty or some notes.
HearingTexts == {"", "notes 1", "notes 2"}

\* Lines 14-24: the manual entry defaults of the session; nothing of the
\* manual entry page rendered or computed yet.  Of case_details only the
\* judgement date is kept: the text fields are copies of their inputs.
ManualDefaults ==
    /\ case_details = [judgement_date |-> NoDate]
    /\ timeline = [filing_date |-> NoDate, decision_date |-> NoDate]
    /\ hearings = <<>>
    /\ add_shown = FALSE /\ add_clicked = FALSE
    /\ new_hearing_date = NoDate /\ new_hearing_summary = ""
    /\ decision_date_val = NoDate
    /\ sorted_hearings = <<>>

\* ------------------------------------------------------------- Init
\* Lines 14-34 of the first run: the session defaults, no widget touched.
Init ==
    /\ pdf_text = None /\ summary = None /\ uploaded_file_id = NoFileId
    /\ gemini_configured = FALSE /\ gemini_error = None
    /\ user_gemini_key = ""
    /\ secrets_key \in SecretValues
    /\ uploaded_file = NoFile /\ next_file_id = 1
    /\ genai_api_key = None /\ button_shown = FALSE
    /\ pc = "keys" /\ api_key_to_use = None /\ gemini_model = None
    /\ clicked = FALSE
    /\ pre = [pdf_text |-> None, summary |-> None,
              uploaded_file_id |-> NoFileId,
              gemini_configured |-> FALSE, gemini_error |-> None,
              api_key_to_use |-> None, genai_api_key |-> None]
    /\ configure_calls = 0 /\ extract_calls = 0 /\ generate_calls = 0
    /\ summary_outcome = "none" /\ summary_result = None
    /\ extractions_of_upload = 0
    /\ sent_text = None /\ summary_file_id = NoFileId
    /\ ManualDefaults

\* ------------------------------------------------------------- actions
\* A user event starts a rerun: the widgets deliver their values (line 50
\* the key input, line 104 the uploader, line 199 the button, which can
\* only be clicked if the previous run rendered it).  A newly chosen file
\* gets a fresh identity token.
Rerun ==
    /\ pc = "idle"
    /\ \E k \in UserKeyValues : user_gemini_key' = k
    /\ \/ UNCHANGED <<uploaded_file, next_file_id, extractions_of_upload>>
       \/ /\ uploaded_file # NoFile
          /\ uploaded_file' = NoFile
          /\ extractions_of_upload' = 0
          /\ UNCHANGED next_file_id
       \/ /\ next_file_id <= MaxUploads
          /\ \E d \in Docs :
                uploaded_file' = [file_id |-> next_file_id, doc |-> d]
          /\ next_file_id' = next_file_id + 1
          /\ extractions_of_upload' = 0
    /\ clicked' \in (IF button_shown THEN BOOLEAN ELSE {FALSE})
    /\ pc' = "keys"
    /\ gemini_model' = None
    /\ pre' = Snapshot
    /\ configure_calls' = 0 /\ extract_calls' = 0 /\ generate_calls' = 0
    /\ summary_outcome' = "none" /\ summary_result' = None
    /\ sent_text' = None
    /\ UNCHANGED <<pdf_text, summary, uploaded_file_id, gemini_configured,
                   gemini_error, secrets_key, genai_api_key, button_shown,
                   api_key_to_use, summary_file_id, manual>>

\* Variant of KeySelection: line 70 is missing.
KeySelection_keeps_flag ==
    /\ pc = "keys"
    /\ api_key_to_use' = api_key_selection(secrets_key, user_gemini_key)
    /\ pc' = "config"
    /\ UNCHANGED <<session, environment, gemini_model, clicked,
                   observed, summary_file_id, manual>>

\* Lines 42-70: read the secret, pick the effective key; with no key at
\* all gemini_configured is forced to False.
KeySelection ==
    /\ pc = "keys"
    /\ api_key_to_use' = api_key_selection(secrets_key, user_gemini_key)
    /\ gemini_configured' =
          IF Truthy(secrets_key) \/ Truthy(user_gemini_key)
          THEN gemini_configured ELSE FALSE
    /\ pc' = "config"
    /\ UNCHANGED <<pdf_text, summary, uploaded_file_id, gemini_error,
                   user_gemini_key, environment, gemini_model, clicked,
                   observed, summary_file_id, manual>>

\* Variant of ConfigureGemini: the flag is set before GenerativeModel
\* raises and the except branch does not reset it.
ConfigureGemini_flag_kept ==
    /\ pc = "config"
    /\ should_configure(api_key_to_use, gemini_configured, gemini_error)
    /\ configure_calls' = configure_calls + 1
    /\ \E co \in ConfigureOutcomes :
          IF co = "ok"
          THEN /\ genai_api_key' = api_key_to_use
               /\ gemini_model' = Model
               /\ gemini_configured' = TRUE
               /\ gemini_error' = None
          ELSE /\ gemini_configured' = TRUE
               /\ gemini_error' = ConfigError
               /\ UNCHANGED <<genai_api_key, gemini_model>>
    /\ pc' = "main"
    /\ UNCHANGED <<pdf_text, summary, uploaded_file_id, user_gemini_key,
                   secrets_key, uploaded_file, next_file_id, button_shown,
                   api_key_to_use, clicked, pre, extract_calls,
                   generate_calls, summary_outcome, summary_result,
                   extractions_of_upload, sent_text, summary_file_id,
                   manual>>

\* Lines 72-95, the try block entered: genai.configure and GenerativeModel
\* either return or raise.
ConfigureGemini ==
    /\ pc = "config"
    /\ should_configure(api_key_to_use, gemini_configured, gemini_error)
    /\ configure_calls' = configure_calls + 1
    /\ \E co \in ConfigureOutcomes :
          IF co = "ok"
          THEN /\ genai_api_key' = api_key_to_use
               /\ gemini_model' = Model
               /\ gemini_configured' = TRUE
               /\ gemini_error' = None
          ELSE /\ gemini_configured' = FALSE
               /\ gemini_error' = ConfigError
               /\ UNCHANGED <<genai_api_key, gemini_model>>
    /\ pc' = "main"
    /\ UNCHANGED <<pdf_text, summary, uploaded_file_id, user_gemini_key,
                   secrets_key, uploaded_file, next_file_id, button_shown,
                   api_key_to_use, clicked, pre, extract_calls,
                   generate_calls, summary_outcome, summary_result,
                   extractions_of_upload, sent_text, summary_file_id,
                   manual>>

\* Lines 72-99, the try block skipped (no key, already configured, or a
\* recorded error, which is only displayed).
SkipConfigure ==
    /\ pc = "config"
    /\ ~should_configure(api_key_to_use, gemini_configured, gemini_error)
    /\ pc' = "main"
    /\ UNCHANGED <<session, environment, api_key_to_use, gemini_model,
                   clicked, observed, summary_file_id, manual>>

\* Variant of UploadHandling: line 178 is missing, the summary is kept.
UploadHandling_keeps_summary ==
    /\ pc = "main"
    /\ uploaded_file # NoFile
    /\ IF needs_extraction(pdf_text, uploaded_file.file_id, uploaded_file_id)
       THEN /\ pdf_text' = extract_text_from_pdf(uploaded_file)
            /\ uploaded_file_id' = uploaded_file.file_id
            /\ extract_calls' = extract_calls + 1
            /\ extractions_of_upload' =
                  Min(extractions_of_upload + 1, MaxCount)
       ELSE UNCHANGED <<pdf_text, uploaded_file_id, extract_calls,
                        extractions_of_upload>>
    /\ pc' = "summary"
    /\ UNCHANGED <<summary, summary_file_id, gemini_configured,
                   gemini_error, user_gemini_key,
                   environment, api_key_to_use, gemini_model, clicked, pre,
                   configure_calls, generate_calls, summary_outcome,
                   summary_result, sent_text, manual>>

\* Variant of UploadHandling: the summary is reset only when the
\* extraction yields text.
UploadHandling_reset_on_success ==
    /\ pc = "main"
    /\ uploaded_file # NoFile
    /\ IF needs_extraction(pdf_text, uploaded_file.file_id, uploaded_file_id)
       THEN /\ pdf_text' = extract_text_from_pdf(uploaded_file)
            /\ summary' = IF Truthy(pdf_text') THEN None ELSE summary
            /\ summary_file_id' =
                  IF Truthy(pdf_text') THEN NoFileId ELSE summary_file_id
            /\ uploaded_file_id' = uploaded_file.file_id
            /\ extract_calls' = extract_calls + 1
            /\ extractions_of_upload' =
                  Min(extractions_of_upload + 1, MaxCount)
       ELSE UNCHANGED <<pdf_text, summary, uploaded_file_id, extract_calls,
                        extractions_of_upload, summary_file_id>>
    /\ pc' = "summary"
    /\ UNCHANGED <<gemini_configured, gemini_error, user_gemini_key,
                   environment, api_key_to_use, gemini_model, clicked, pre,
                   configure_calls, generate_calls, summary_outcome,
                   summary_result, sent_text, manual>>

\* Lines 173-183: a file is in the uploader; extract its text when none
\* is stored or the identity token is not the recorded one.
UploadHandling ==
    /\ pc = "main"
    /\ uploaded_file # NoFile
    /\ IF needs_extraction(pdf_text, uploaded_file.file_id, uploaded_file_id)
       THEN /\ pdf_text' = extract_text_from_pdf(uploaded_file)
            /\ summary' = None
            /\ summary_file_id' = NoFileId
            /\ uploaded_file_id' = uploaded_file.file_id
            /\ extract_calls' = extract_calls + 1
            /\ extractions_of_upload' =
                  Min(extractions_of_upload + 1, MaxCount)
       ELSE UNCHANGED <<pdf_text, summary, uploaded_file_id, extract_calls,
                        extractions_of_upload, summary_file_id>>
    /\ pc' = "summary"
    /\ UNCHANGED <<gemini_configured, gemini_error, user_gemini_key,
                   environment, api_key_to_use, gemini_model, clicked, pre,
                   configure_calls, generate_calls, summary_outcome,
                   summary_result, sent_text, manual>>

\* Variant of NoUpload: the configuration flag is cleared with the rest.
NoUpload_clears_config ==
    /\ pc = "main"
    /\ uploaded_file = NoFile
    /\ pdf_text' = None
    /\ summary' = None
    /\ uploaded_file_id' = NoFileId
    /\ summary_file_id' = NoFileId
    /\ gemini_configured' = FALSE
    /\ button_shown' = FALSE
    /\ pc' = "idle"
    /\ UNCHANGED <<gemini_error, user_gemini_key,
                   secrets_key, uploaded_file, next_file_id, genai_api_key,
                   api_key_to_use, gemini_model, clicked, observed,
                   manual>>

\* Lines 294-300: no file in the uploader; the document state is cleared,
\* the rest of the page (the button included) is not rendered.
NoUpload ==
    /\ pc = "main"
    /\ uploaded_file = NoFile
    /\ pdf_text' = None
    /\ summary' = None
    /\ uploaded_file_id' = NoFileId
    /\ summary_file_id' = NoFileId
    /\ button_shown' = FALSE
    /\ pc' = "idle"
    /\ UNCHANGED <<gemini_configured, gemini_error, user_gemini_key,
                   secrets_key, uploaded_file, next_file_id, genai_api_key,
                   api_key_to_use, gemini_model, clicked, observed,
                   manual>>

\* Lines 198, 232-235: the button is not rendered, a warning is.
ButtonNotRendered ==
    /\ pc = "summary"
    /\ ~button_enabled(gemini_configured, pdf_text)
    /\ button_shown' = FALSE
    /\ pc' = "idle"
    /\ UNCHANGED <<session, secrets_key, uploaded_file, next_file_id,
                   genai_api_key, api_key_to_use, gemini_model, clicked,
                   observed, summary_file_id, manual>>

\* Lines 198-199, 223-229: the button is rendered and was not clicked.
ButtonNotClicked ==
    /\ pc = "summary"
    /\ button_enabled(gemini_configured, pdf_text)
    /\ ~clicked
    /\ button_shown' = TRUE
    /\ pc' = "idle"
    /\ UNCHANGED <<session, secrets_key, uploaded_file, next_file_id,
                   genai_api_key, api_key_to_use, gemini_model, clicked,
                   observed, summary_file_id, manual>>

\* Lines 199-220: the button was clicked.  With no model in this run the
\* client is configured again (lines 203-206), which may raise (line 216);
\* then summarize_with_gemini is called and a truthy result is stored.
GenerateSummary ==
    /\ pc = "summary"
    /\ button_enabled(gemini_configured, pdf_text)
    /\ clicked
    /\ button_shown' = TRUE
    /\ pc' = "idle"
    /\ IF ~Truthy(api_key_to_use)
       THEN /\ summary_outcome' = "no_key"
            /\ UNCHANGED <<summary, genai_api_key, gemini_model,
                           configure_calls, generate_calls, summary_result,
                           sent_text, summary_file_id>>
       ELSE \E co \in ConfigureOutcomes, go \in GenerateOutcomes :
            IF gemini_model = None /\ co = "raise"
            THEN /\ configure_calls' = configure_calls + 1
                 /\ summary' = None
                 /\ summary_file_id' = NoFileId
                 /\ summary_outcome' = "setup_error"
                 /\ UNCHANGED <<genai_api_key, gemini_model, generate_calls,
                                summary_result, sent_text>>
            ELSE LET reinit == gemini_model = None
                     r == summarize_with_gemini(pdf_text, Model,
                                                gemini_configured, go)
                 IN /\ configure_calls' =
                          configure_calls + (IF reinit THEN 1 ELSE 0)
                    /\ genai_api_key' =
                          IF reinit THEN api_key_to_use ELSE genai_api_key
                    /\ gemini_model' = Model
                    /\ summary_result' = r.result
                    /\ generate_calls' = generate_calls + r.calls
                    /\ summary_outcome' = r.outcome
                    /\ sent_text' = r.sent
                    /\ summary' = stored_summary(r.result, summary)
                    /\ summary_file_id' =
                          IF Truthy(r.result) THEN uploaded_file_id
                          ELSE summary_file_id
    /\ UNCHANGED <<pdf_text, uploaded_file_id, gemini_configured,
                   gemini_error, user_gemini_key, secrets_key, uploaded_file,
                   next_file_id, api_key_to_use, clicked, pre, extract_calls,
                   extractions_of_upload, manual>>

Next ==
    \/ Rerun
    \/ KeySelection
    \/ ConfigureGemini
    \/ SkipConfigure
    \/ UploadHandling
    \/ NoUpload
    \/ ButtonNotRendered
    \/ ButtonNotClicked
    \/ GenerateSummary

Spec == Init /\ [][Next]_vars

TypeOK ==
    /\ pc \notin {"call", "returned"}
          => /\ pdf_text \in {None, ""} \cup {"text A", "text B"}
             /\ summary \in {None, NotConfiguredMsg}
                   \cup {ResponseText(t) : t \in {"text A", "text B"}}
    /\ uploaded_file_id \in 0..MaxUploads
    /\ gemini_configured \in BOOLEAN
    /\ gemini_error \in {None, ConfigError}
    /\ user_gemini_key \in UserKeyValues
    /\ secrets_key \in SecretValues
    /\ uploaded_file \in Files \cup {NoFile}
    /\ next_file_id \in 1..(MaxUploads + 1)
    /\ genai_api_key \in {None} \cup Keys
    /\ button_shown \in BOOLEAN
    /\ pc \in {"idle", "keys", "config", "main", "summary", "call",
              "returned", "m_idle", "m_page", "m_timeline", "m_hearing",
              "m_list"}
    /\ api_key_to_use \in {None} \cup Keys
    /\ gemini_model \in {None, Model}
    /\ clicked \in BOOLEAN

\* ------------------------------------- summarize_with_gemini on its own
RECURSIVE Repeat(_, _)
\* The string s written n times.
Repeat(s, n) ==
    IF n = 0 THEN ""
    ELSE IF n % 2 = 0
         THEN LET half == Repeat(s, n \div 2) IN half \o half
         ELSE s \o Repeat(s, n - 1)

\* An extracted text of n characters: a run of "x" closed by "END".
LongText(n) == Repeat("x", n - 3) \o "END"

\* Lengths of extracted texts around the prompt limit.
LongLengths == (PromptLimit - 1)..(PromptLimit + MaxExtra)

\* Texts summarize_with_gemini is called with.
SummarizeTexts ==
    {"", "text A", "text B"} \cup {LongText(n) : n \in LongLengths}

\* The function called with any text and model, in any session state it
\* reads (gemini_configured) or that surrounds it.
InitSummarize ==
    /\ pdf_text \in SummarizeTexts
    /\ gemini_model \in {None, Model}
    /\ gemini_configured \in BOOLEAN
    /\ summary \in {None, ResponseText("text A")}
    /\ gemini_error \in {None, ConfigError}
    /\ user_gemini_key \in UserKeyValues
    /\ uploaded_file_id = NoFileId
    /\ secrets_key = None
    /\ uploaded_file = NoFile /\ next_file_id = 1
    /\ genai_api_key = None /\ button_shown = FALSE
    /\ pc = "call" /\ api_key_to_use = None
    /\ clicked = FALSE
    /\ pre = [pdf_text |-> None, summary |-> None,
              uploaded_file_id |-> NoFileId,
              gemini_configured |-> FALSE, gemini_error |-> None,
              api_key_to_use |-> None, genai_api_key |-> None]
    /\ configure_calls = 0 /\ extract_calls = 0 /\ generate_calls = 0
    /\ summary_outcome = "none" /\ summary_result = None
    /\ extractions_of_upload = 0
    /\ sent_text = None /\ summary_file_id = NoFileId
    /\ ManualDefaults

\* Lines 130-166: one call summarize_with_gemini(pdf_text, gemini_model).
CallSummarize ==
    /\ pc = "call"
    /\ \E go \in GenerateOutcomes :
          LET r == summarize_with_gemini(pdf_text, gemini_model,
                                         gemini_configured, go)
          IN /\ summary_result' = r.result
             /\ generate_calls' = generate_calls + r.calls
             /\ summary_outcome' = r.outcome
             /\ sent_text' = r.sent
    /\ pc' = "returned"
    /\ UNCHANGED <<session, environment, api_key_to_use, gemini_model,
                   clicked, pre, configure_calls, extract_calls,
                   extractions_of_upload, summary_file_id, manual>>

NextSummarize == CallSummarize

SpecSummarize == InitSummarize /\ [][NextSummarize]_vars

\* --------------------------------------- the manual entry sections
\* Lines 238-287 read and write case_details, timeline and hearings only,
\* and run exactly in the reruns that have a file in the uploader (line
\* 173); the fields of the document and of the AI client are not touched.

\* Python dict.get(key, default): the default is used for a missing key.
dict_get(d, key, default) == IF key \in DOMAIN d THEN d[key] ELSE default

\* Line 253: the value handed to the Final Decision Date input.
decision_date_value(tl, cd) ==
    dict_get(tl, "decision_date", dict_get(cd, "judgement_date", NoDate))

\* Variant of add_hearing_accepted: the summary is not tested.
add_hearing_accepted_date_only(d, text) == d # NoDate

\* Variant of add_hearing_accepted: the date is not tested.
add_hearing_accepted_text_only(d, text) == text # ""

\* Line 265: both the date and the summary are truthy.
add_hearing_accepted(d, text) == d # NoDate /\ text # ""

\* Line 279, the list comprehension: the hearings whose date is truthy.
hearings_with_date(hs) ==
    SelectSeq(hs, LAMBDA h : dict_get(h, "date", NoDate) # NoDate)

\* Variant of insert_by_date: descending order.
insert_by_date_descending(h, sorted) ==
    LET before == SelectSeq(sorted, LAMBDA x : x.date >= h.date)
        after  == SelectSeq(sorted, LAMBDA x : x.date < h.date)
    IN before \o <<h>> \o after

\* Line 279, sorted(..., key=date): h is placed behind the records of an
\* earlier or equal date (Python's sort is stable).
insert_by_date(h, sorted) ==
    LET before == SelectSeq(sorted, LAMBDA x : x.date <= h.date)
        after  == SelectSeq(sorted, LAMBDA x : x.date > h.date)
    IN before \o <<h>> \o after

RECURSIVE sorted_by_date(_)
\* Line 279: a new list, ascending by date; the argument is not modified.
sorted_by_date(hs) ==
    IF hs = <<>> THEN <<>>
    ELSE insert_by_date(hs[Len(hs)], sorted_by_date(SubSeq(hs, 1, Len(hs) - 1)))

\* The first run of a session, seen from the manual entry sections.
InitManual ==
    /\ pdf_text = None /\ summary = None /\ uploaded_file_id = NoFileId
    /\ gemini_configured = FALSE /\ gemini_error = None
    /\ user_gemini_key = ""
    /\ secrets_key = None
    /\ uploaded_file = NoFile /\ next_file_id = 1
    /\ genai_api_key = None /\ button_shown = FALSE
    /\ pc = "m_page" /\ api_key_to_use = None /\ gemini_model = None
    /\ clicked = FALSE
    /\ pre = [pdf_text |-> None, summary |-> None,
              uploaded_file_id |-> NoFileId,
              gemini_configured |-> FALSE, gemini_error |-> None,
              api_key_to_use |-> None, genai_api_key |-> None]
    /\ configure_calls = 0 /\ extract_calls = 0 /\ generate_calls = 0
    /\ summary_outcome = "none" /\ summary_result = None
    /\ extractions_of_upload = 0
    /\ sent_text = None /\ summary_file_id = NoFileId
    /\ ManualDefaults

\* The variables of the document and AI part, left alone by these sections.
document_part == <<session, secrets_key, next_file_id, genai_api_key,
                   button_shown, api_key_to_use, gemini_model, clicked,
                   observed, summary_file_id>>

\* A user event starts a rerun: a file is or is not in the uploader (line
\* 104); the Add Hearing Summary button (line 264) can be clicked only if
\* the previous run rendered it.  The locals of the last run are gone.
ManualRerun ==
    /\ pc = "m_idle"
    /\ uploaded_file' \in {NoFile, [file_id |-> 1, doc |-> "A"]}
    /\ add_clicked' \in (IF add_shown /\ Len(hearings) < MaxHearings
                         THEN BOOLEAN ELSE {FALSE})
    /\ new_hearing_date' = NoDate /\ new_hearing_summary' = ""
    /\ decision_date_val' = NoDate
    /\ sorted_hearings' = <<>>
    /\ pc' = "m_page"
    /\ UNCHANGED <<document_part, case_details, timeline, hearings,
                   add_shown>>

\* Lines 294-300 as far as these sections go: without a file none of them
\* is rendered.
PageNotRendered ==
    /\ pc = "m_page"
    /\ uploaded_file = NoFile
    /\ add_shown' = FALSE
    /\ pc' = "m_idle"
    /\ UNCHANGED <<document_part, uploaded_file, case_details, timeline,
                   hearings, add_clicked, new_hearing_date,
                   new_hearing_summary, decision_date_val, sorted_hearings>>

\* Lines 240-247: the Date of Judgement input delivers the stored date or
\* the one the user picked, and it is stored.
CaseDetailsForm ==
    /\ pc = "m_page"
    /\ uploaded_file # NoFile
    /\ \E d \in {dict_get(case_details, "judgement_date", NoDate)} \cup Dates :
          case_details' = [case_details EXCEPT !.judgement_date = d]
    /\ pc' = "m_timeline"
    /\ UNCHANGED <<document_part, uploaded_file, timeline, hearings,
                   add_shown, add_clicked, new_hearing_date,
                   new_hearing_summary, decision_date_val, sorted_hearings>>

\* Lines 250-255: the two date inputs are given filing_date_val and
\* decision_date_val, deliver those or the dates the user picked, and the
\* delivered dates are stored.
TimelineForm ==
    /\ pc = "m_timeline"
    /\ decision_date_val' = decision_date_value(timeline, case_details)
    /\ \E f \in {dict_get(timeline, "filing_date", NoDate)} \cup Dates,
          d \in {decision_date_val'} \cup Dates :
          timeline' = [filing_date |-> f, decision_date |-> d]
    /\ pc' = "m_hearing"
    /\ UNCHANGED <<document_part, uploaded_file, case_details, hearings,
                   add_shown, add_clicked, new_hearing_date,
                   new_hearing_summary, sorted_hearings>>

\* Lines 258-271: the inputs deliver a date (or none) and a text; a click
\* on Add Hearing Summary appends the record if both are truthy and warns
\* otherwise.
AddHearingSection ==
    /\ pc = "m_hearing"
    /\ \E d \in Dates \cup {NoDate}, t \in HearingTexts :
          /\ new_hearing_date' = d
          /\ new_hearing_summary' = t
          /\ hearings' =
                IF add_clicked /\ add_hearing_accepted(d, t)
                THEN Append(hearings, [date |-> d, summary |-> t])
                ELSE hearings
    /\ add_shown' = TRUE
    /\ pc' = "m_list"
    /\ UNCHANGED <<document_part, uploaded_file, case_details, timeline,
                   add_clicked, decision_date_val, sorted_hearings>>

\* Lines 273-287: with hearings stored, the sorted list of those with a
\* date is built and displayed.
RecordedHearings ==
    /\ pc = "m_list"
    /\ sorted_hearings' =
          IF hearings = <<>> THEN <<>>
          ELSE sorted_by_date(hearings_with_date(hearings))
    /\ pc' = "m_idle"
    /\ UNCHANGED <<document_part, uploaded_file, case_details, timeline,
                   hearings, add_shown, add_clicked, new_hearing_date,
                   new_hearing_summary, decision_date_val>>

NextManual ==
    \/ ManualRerun
    \/ PageNotRendered
    \/ CaseDetailsForm
    \/ TimelineForm
    \/ AddHearingSection
    \/ RecordedHearings

SpecManual == InitManual /\ [][NextManual]_vars

\* ------------------------------------------------------------- claims

\* C1: in a rerun whose uploaded file has an identity token different from
\* the recorded uploaded_file_id, the stored summary is None when upload
\* handling has finished, whether the extraction succeeded or failed.
C1_NewUploadClearsSummary ==
    (pc = "summary" /\ uploaded_file.file_id # pre.uploaded_file_id)
        => summary = None

\* C1 witness: upload handling finished for a new file whose extraction
\* failed, and a summary was stored before.
C1_Witness ==
    /\ pc = "summary"
    /\ uploaded_file.file_id # pre.uploaded_file_id
    /\ pre.summary # None
    /\ pdf_text = None
    /\ summary = None

\* C2 as stated: whenever a summary request fails (blocked, API error, or
\* an error in the set-up of the request), the stored summary keeps the
\* value it had before the request.
C2_FailureKeepsSummary ==
    [][(pc = "summary"
        /\ summary_outcome' \in {"blocked", "api_error", "setup_error"})
          => summary' = summary]_vars

\* C2 amended: a blocked request and an API error leave the stored summary
\* as it was; an error in the set-up of the request sets it to None.
C2_FailureKeepsSummaryUnlessSetup ==
    [][/\ (pc = "summary" /\ summary_outcome' \in {"blocked", "api_error"})
            => summary' = summary
       /\ (pc = "summary" /\ summary_outcome' = "setup_error")
            => summary' = None]_vars

\* C2 witness: a request was blocked or hit an API error while a summary
\* generated earlier is stored.
C2_Witness ==
    /\ pc = "idle"
    /\ summary_outcome \in {"blocked", "api_error"}
    /\ generate_calls = 1
    /\ summary # None

\* C3 as stated: once genai.configure has succeeded with a key, a later
\* rerun with the same effective key makes no configure call.
C3_NoReconfigure ==
    (pc # "keys" /\ pre.genai_api_key # None
     /\ api_key_to_use = pre.genai_api_key)
        => configure_calls = 0

\* C3 amended: a rerun that starts configured and has the effective key the
\* client was configured with makes no configure call, unless the Generate
\* Summary click is handled in it, and then it makes exactly one.
C3_ReconfigureOnlyOnRequest ==
    (pc = "idle" /\ pre.gemini_configured
     /\ api_key_to_use = pre.genai_api_key)
        => configure_calls = (IF summary_outcome = "none" THEN 0 ELSE 1)

\* C3 witness: a finished rerun of a configured session with the same key
\* in which a summary was requested and one configure call was made.
C3_Witness ==
    /\ pc = "idle"
    /\ pre.gemini_configured
    /\ api_key_to_use = pre.genai_api_key
    /\ summary_outcome = "ok"
    /\ configure_calls = 1

\* C4 as stated, for a configuration error: a rerun that starts with a
\* recorded gemini_error and has a different effective key than the rerun
\* before makes a new configuration attempt.
C4_DifferentKeyRetriesConfiguration ==
    (pc = "main" /\ pre.gemini_error # None
     /\ Truthy(api_key_to_use) /\ api_key_to_use # pre.api_key_to_use)
        => configure_calls = 1

\* C5: once gemini_error is set, no step makes a configure call,
\* gemini_error keeps its value and gemini_configured is False, whatever
\* key is entered or removed.
C5_FailedStaysFailed ==
    /\ [](gemini_error # None => ~gemini_configured)
    /\ [][gemini_error # None =>
            /\ gemini_error' = gemini_error
            /\ ~gemini_configured'
            /\ configure_calls' <= configure_calls]_vars

\* C5 witness: a rerun that started with a recorded error and has another,
\* non-empty effective key is past the configuration block.
C5_Witness ==
    /\ pc = "main"
    /\ pre.gemini_error # None
    /\ Truthy(api_key_to_use) /\ api_key_to_use # pre.api_key_to_use
    /\ gemini_error # None
    /\ configure_calls = 0

\* C6: in a rerun whose uploaded file has the recorded identity token while
\* extracted text is stored, upload handling calls no extraction and leaves
\* pdf_text, summary and uploaded_file_id as they were.
C6_SameUploadIsNoOp ==
    (pc = "summary" /\ uploaded_file.file_id = pre.uploaded_file_id
     /\ pre.pdf_text # None)
        => /\ extract_calls = 0
           /\ pdf_text = pre.pdf_text
           /\ summary = pre.summary
           /\ uploaded_file_id = pre.uploaded_file_id

\* C6 witness: upload handling finished for the recorded file, with text
\* and a summary stored.
C6_Witness ==
    /\ pc = "summary"
    /\ uploaded_file.file_id = pre.uploaded_file_id
    /\ pre.pdf_text # None
    /\ pre.summary # None
    /\ extract_calls = 0

\* C7 as stated: while the same uploaded file stays in the uploader, text
\* extraction is invoked at most once.
C7_ExtractOncePerUpload == extractions_of_upload <= 1

\* C8: the branch taken with no uploaded file sets pdf_text, summary and
\* uploaded_file_id to None and leaves gemini_configured, gemini_error and
\* the user-entered key unchanged.
C8_RemovalResetsDocumentOnly ==
    [][(pc = "main" /\ uploaded_file = NoFile) =>
          /\ pdf_text' = None
          /\ summary' = None
          /\ uploaded_file_id' = NoFileId
          /\ UNCHANGED <<gemini_configured, gemini_error,
                         user_gemini_key>>]_vars

\* C8 witness: the upload was removed from a configured session that held
\* text and a summary; the rerun has finished.
C8_Witness ==
    /\ pc = "idle"
    /\ uploaded_file = NoFile
    /\ pre.pdf_text # None /\ pre.summary # None
    /\ pre.uploaded_file_id # NoFileId
    /\ pdf_text = None /\ summary = None /\ uploaded_file_id = NoFileId
    /\ gemini_configured

\* C9: summarize_with_gemini called with gemini_configured False or with no
\* model returns the not-configured message and makes no generate_content
\* call; a generate_content call is made only when configured with a model.
C9_NoGenerateWhenNotConfigured ==
    pc = "returned" =>
        /\ (~gemini_configured \/ gemini_model = None)
              => (generate_calls = 0 /\ summary_result = NotConfiguredMsg)
        /\ generate_calls > 0
              => (gemini_configured /\ gemini_model # None)

\* C9 witness: the function returned from a call made with a model while
\* gemini_configured was False.
C9_Witness ==
    /\ pc = "returned"
    /\ ~gemini_configured /\ gemini_model = Model
    /\ generate_calls = 0
    /\ summary_result = NotConfiguredMsg

C11_AddHearingValidated ==
    [][(pc = "m_hearing" /\ add_clicked) =>
          IF new_hearing_date' = NoDate \/ new_hearing_summary' = ""
          THEN hearings' = hearings
          ELSE /\ Len(hearings') = Len(hearings) + 1
               /\ SubSeq(hearings', 1, Len(hearings)) = hearings
               /\ hearings'[Len(hearings')] =
                     [date |-> new_hearing_date',
                      summary |-> new_hearing_summary']]_vars

\* C11 witness: a click with a date and an empty summary was handled while
\* a hearing is stored.
C11_Witness ==
    /\ pc = "m_list"
    /\ add_clicked
    /\ new_hearing_date # NoDate /\ new_hearing_summary = ""
    /\ Len(hearings) = 1

\* The number of positions of seq that hold record r.
Occurrences(r, seq) == Cardinality({i \in DOMAIN seq : seq[i] = r})

\* C12: the sorted listing holds exactly the stored hearings that have a
\* date, each as often as it is stored, in ascending order of date, and
\* building it leaves the stored collection and its order unchanged.
C12_SortedListing ==
    /\ []((pc = "m_idle" /\ uploaded_file # NoFile /\ hearings # <<>>) =>
            /\ \A i, j \in DOMAIN sorted_hearings :
                  i < j => sorted_hearings[i].date <= sorted_hearings[j].date
            /\ \A d \in Dates \cup {NoDate}, t \in HearingTexts :
                  LET r == [date |-> d, summary |-> t]
                  IN Occurrences(r, sorted_hearings) =
                        (IF d = NoDate THEN 0 ELSE Occurrences(r, hearings)))
    /\ [][pc = "m_list" => hearings' = hearings]_vars

\* C12 witness: two hearings stored later date first, listed earlier date
\* first.
C12_Witness ==
    /\ pc = "m_idle" /\ uploaded_file # NoFile
    /\ Len(hearings) = 2
    /\ hearings[1].date > hearings[2].date
    /\ sorted_hearings = <<hearings[2], hearings[1]>>

\* C13 as stated: while the timeline's decision_date is not set and the
\* judgement date is set, the value used for the decision date input is
\* the judgement date.
C13_DecisionDateDefaultsToJudgementDate ==
    [][(pc = "m_timeline" /\ timeline.decision_date = NoDate
        /\ case_details.judgement_date # NoDate)
          => decision_date_val' = case_details.judgement_date]_vars

\* C14: a rerun makes at most one generate_content call, and none unless
\* the Generate Summary button was clicked.
C14_OneCallPerClick ==
    /\ generate_calls <= 1
    /\ ~clicked => generate_calls = 0

\* C14 witness: a clicked request ended in an API error after one call.
C14_Witness ==
    /\ pc = "idle" /\ clicked
    /\ summary_outcome = "api_error"
    /\ generate_calls = 1

\* Whether p is the text t cut after its first Len(p) characters.
IsPrefix(p, t) ==
    Len(p) <= Len(t) /\ p \o SubSeq(t, Len(p) + 1, Len(t)) = t

\* C15: the part of the text placed in the request is the whole text when
\* it has at most 30,000 characters, and its first 30,000 otherwise.
C15_PromptTruncated ==
    (pc = "returned" /\ generate_calls = 1) =>
        /\ Len(pdf_text) <= 30000 => sent_text = pdf_text
        /\ Len(pdf_text) > 30000 =>
              (Len(sent_text) = 30000 /\ IsPrefix(sent_text, pdf_text))

\* C15 witness: a call was made for a text longer than the limit.
C15_Witness ==
    /\ pc = "returned" /\ generate_calls = 1
    /\ Len(pdf_text) = 30000 + 2
    /\ Len(sent_text) = 30000

\* C16: at the end of a rerun a stored summary is the one generated from
\* the stored text, for the recorded file, which is the file in the
\* uploader; none is stored without stored text.
C16_SummaryOfStoredDocument ==
    (pc = "idle" /\ summary # None) =>
        /\ Truthy(pdf_text)
        /\ summary = ResponseText(PromptText(pdf_text))
        /\ uploaded_file_id # NoFileId
        /\ summary_file_id = uploaded_file_id
        /\ uploaded_file.file_id = uploaded_file_id

\* C16 witness: a summary is stored for the second upload of the session.
C16_Witness ==
    /\ pc = "idle"
    /\ uploaded_file_id = 2
    /\ summary # None /\ summary_file_id = 2

\* C17: gemini_configured and gemini_error are never both set.
C17_ConfiguredExcludesError == gemini_configured => gemini_error = None

\* C17 witness: a configuration attempt has just failed.
C17_Witness ==
    /\ pc = "main" /\ configure_calls = 1
    /\ gemini_error # None /\ ~gemini_configured

\* C18: after key selection gemini_configured is True only with an
\* effective key; and a rerun that is unconfigured without a recorded
\* error and has an effective key attempts configuration.
C18_ConfiguredOnlyWithKey ==
    /\ (pc # "keys" /\ gemini_configured) => Truthy(api_key_to_use)
    /\ (pc = "main" /\ ~pre.gemini_configured /\ pre.gemini_error = None
        /\ Truthy(api_key_to_use)) => configure_calls = 1

\* C18 witness: a session that was configured and then lost its only key
\* has a key again and has made a configuration attempt.
C18_Witness ==
    /\ pc = "main"
    /\ pre.genai_api_key # None /\ ~pre.gemini_configured
    /\ pre.api_key_to_use = None
    /\ Truthy(api_key_to_use)
    /\ configure_calls = 1

\* C19: every stored hearing has a date and a non-empty summary, and the
\* sorted display has as many entries as the stored collection.
C19_NoHearingExcluded ==
    /\ \A i \in DOMAIN hearings :
          hearings[i].date # NoDate /\ hearings[i].summary # ""
    /\ (pc = "m_idle" /\ uploaded_file # NoFile)
          => Len(sorted_hearings) = Len(hearings)

\* C19 witness: two hearings of the same date are stored and displayed.
C19_Witness ==
    /\ pc = "m_idle" /\ uploaded_file # NoFile
    /\ Len(hearings) = 2 /\ Len(sorted_hearings) = 2
    /\ hearings[1].date = hearings[2].date

\* C20: the stored summary is never the not-configured message; it is None
\* or a text returned by generate_content.
C20_SentinelNeverStored ==
    /\ summary # NotConfiguredMsg
    /\ summary \in {None} \cup
          {ResponseText(PromptText(extract_text_from_pdf(f))) : f \in Files}

\* C20 witness: the handler has stored the text a request returned.
C20_Witness ==
    /\ pc = "idle"
    /\ summary_outcome = "ok"
    /\ summary # None /\ summary = summary_result

====
